---- MODULE Spec2Model ----
(***************************************************************************)
(* Model of glm_image_ui.py: the two generation endpoints of the GLM-Image *)
(* web UI (POST /api/text-to-image, POST /api/image-to-image), the helper  *)
(* functions text_to_image / image_to_image / image_to_base64 they call,   *)
(* the global pipeline handle `pipe`, and the single asyncio event loop    *)
(* uvicorn runs the `async def` handlers on.                               *)
(*                                                                         *)
(* Conventions.                                                            *)
(*   - An optional value is a sequence: <<>> is "absent" (a field the      *)
(*     client did not send, Python None), <<v>> is the value v.            *)
(*   - A Python str that the code inspects (the prompt) is a sequence of   *)
(*     one-character strings; fixed messages are TLA+ strings.             *)
(*   - guidance_scale is a float in the source; it is kept in tenths       *)
(*     (1.5 is 15).                                                        *)
(*   - bytes are integers 0..255.                                          *)
(***************************************************************************)
EXTENDS Integers, Sequences, FiniteSets, TLC

VARIABLES
    pipe,          \* the global `pipe`: "None" or "loaded"
    rng,           \* state of the device's default random stream (used when generator=None)
    running,       \* requests whose handler is executing synchronous code on the event loop
    body,          \* what each client sends (fixed when the client is created)
    pc,            \* position of each request
    params,        \* the request fields after the framework applied the declared defaults
    idx,           \* api_image_to_image: index of the file the `for` loop is reading
    pil_images,    \* api_image_to_image: the local list pil_images
    generator,     \* text_to_image / image_to_image: the local `generator`
    callArgs,      \* keyword arguments of the request's call pipe(...)
    calls,         \* how many times the request called pipe(...)
    image,         \* result.images[0]
    image_base64,  \* result of image_to_base64(image)
    response,      \* the HTTP response sent for the request
    printed        \* lines print() wrote, per request (index 0: start-up)

vars == <<pipe, rng, running, body, pc, params, idx, pil_images, generator,
          callArgs, calls, image, image_base64, response, printed>>

(***************************************************************************)
(* Bounds of the model.                                                    *)
(***************************************************************************)
NumRequests == 2
MaxPromptLen == 1
MaxFiles == 2

Req == 1..NumRequests

(***************************************************************************)
(* Optional values.                                                        *)
(***************************************************************************)
None == <<>>
Some(v) == <<v>>

(***************************************************************************)
(* Declared defaults.                                                      *)
(***************************************************************************)
T2IDefaultHeight == 32 * 32
T2IDefaultWidth == 36 * 32
T2IDefaultSteps == 50
T2IDefaultGuidance == 15
T2IDefaultSeed == 42
I2IDefaultHeight == 1056
I2IDefaultWidth == 1024
I2IDefaultSteps == 50
I2IDefaultGuidance == 15
I2IDefaultSeed == 42

\* variant of Default (`field or dflt`): a supplied 0 is taken for absent
DefaultIfFalsy(field, dflt) == IF field = None \/ field = Some(0) THEN dflt ELSE field[1]

\* a field with a declared default: the default is used only when the field is absent
Default(field, dflt) == IF field = None THEN dflt ELSE field[1]

\* pydantic model TextToImageRequest built from a JSON body that has a prompt
TextToImageRequest(b) ==
    [prompt              |-> b.prompt[1],
     height              |-> Default(b.height, T2IDefaultHeight),
     width               |-> Default(b.width, T2IDefaultWidth),
     num_inference_steps |-> Default(b.num_inference_steps, T2IDefaultSteps),
     guidance_scale      |-> Default(b.guidance_scale, T2IDefaultGuidance),
     seed                |-> Default(b.seed, T2IDefaultSeed)]

\* the Form(...) parameters of api_image_to_image built from a multipart body
ImageToImageForm(b) ==
    [prompt              |-> b.prompt[1],
     height              |-> Default(b.height, I2IDefaultHeight),
     width               |-> Default(b.width, I2IDefaultWidth),
     num_inference_steps |-> Default(b.num_inference_steps, I2IDefaultSteps),
     guidance_scale      |-> Default(b.guidance_scale, I2IDefaultGuidance),
     seed                |-> Default(b.seed, I2IDefaultSeed)]

\* FastAPI answers 422 itself when a required field is missing; the handler is not entered.
FrameworkRejects(b) ==
    \/ b.prompt = None
    \/ b.kind = "i2i" /\ b.files = None

(***************************************************************************)
(* str.strip() and the prompt test.                                        *)
(***************************************************************************)
IsSpace(c) == c \in {" ", "\t", "\n"}

RECURSIVE lstrip(_)
lstrip(s) == IF s # <<>> /\ IsSpace(Head(s)) THEN lstrip(Tail(s)) ELSE s

RECURSIVE rstrip(_)
rstrip(s) ==
    IF s # <<>> /\ IsSpace(s[Len(s)]) THEN rstrip(SubSeq(s, 1, Len(s) - 1)) ELSE s

\* variant of strip (`if not prompt` alone): nothing is stripped
StripNothing(s) == s

\* prompt.strip()
strip(s) == rstrip(lstrip(s))

\* `not prompt or not prompt.strip()`
PromptIsBlank(prompt) == prompt = <<>> \/ strip(prompt) = <<>>

\* variant of NoImages: the test is missing
NoImagesNever(images) == FALSE

\* `images is None or len(images) == 0` (the handler always passes a list)
NoImages(images) == Len(images) = 0

(***************************************************************************)
(* Uploaded files and PIL images.                                          *)
(***************************************************************************)
PngRGB == [format |-> "PNG", mode |-> "RGB", px |-> <<10, 20, 30>>]
PngL == [format |-> "PNG", mode |-> "L", px |-> <<7>>]
Junk == [format |-> "", mode |-> "", px |-> <<>>]

\* Image.open raises UnidentifiedImageError on bytes that are no image
Decodable(file) == file.format # ""

\* Image.open(io.BytesIO(contents)).convert("RGB") on a decodable file
DecodeRGB(file) ==
    [mode |-> "RGB",
     px   |-> IF file.mode = "L" THEN <<file.px[1], file.px[1], file.px[1]>> ELSE file.px]

\* variant of AppendImage: pil_images.insert(0, img)
PrependImage(images, img) == <<img>> \o images

\* pil_images.append(img)
AppendImage(images, img) == Append(images, img)

\* variant of DecodeStep: an undecodable file is skipped (try/continue in the loop)
SkipUndecodable(images, file) ==
    IF Decodable(file)
    THEN [raised |-> FALSE, images |-> AppendImage(images, DecodeRGB(file))]
    ELSE [raised |-> FALSE, images |-> images]

\* one iteration of the upload loop after file.read() returned
DecodeStep(images, file) ==
    IF Decodable(file)
    THEN [raised |-> FALSE, images |-> AppendImage(images, DecodeRGB(file))]
    ELSE [raised |-> TRUE, images |-> images]

(***************************************************************************)
(* The generator.                                                          *)
(***************************************************************************)
\* variant of MakeGenerator: only the sentinel -1 means "no generator"
MakeGeneratorSentinel(seed) == IF seed # -1 THEN Some(seed) ELSE None

\* variant of MakeGenerator: the seed is ignored
MakeGeneratorUnseeded(seed) == None

\* torch.Generator(device="cuda").manual_seed(seed) if seed >= 0 else None
MakeGenerator(seed) == IF seed >= 0 THEN Some(seed) ELSE None

(***************************************************************************)
(* Exceptions and the two layers of `except`.                              *)
(***************************************************************************)
NoException == [type |-> "", status_code |-> 0, detail |-> ""]
ValueError(msg) == [type |-> "ValueError", status_code |-> 0, detail |-> msg]
HTTPException(code, msg) == [type |-> "HTTPException", status_code |-> code, detail |-> msg]
UnidentifiedImageError == [type |-> "UnidentifiedImageError", status_code |-> 0,
                           detail |-> "cannot identify image file"]
ModelError == [type |-> "RuntimeError", status_code |-> 0, detail |-> "CUDA out of memory"]
EncoderError == [type |-> "OSError", status_code |-> 0, detail |-> "cannot write PNG"]

NotLoadedMessage == "Model is not loaded yet. Please wait for the model to finish loading."

\* str(e): Starlette's HTTPException prints as "<status_code>: <detail>"
Str(e) ==
    IF e.type = "HTTPException"
    THEN (IF e.status_code = 503 THEN "503" ELSE "500") \o ": " \o e.detail
    ELSE e.detail

\* the validation at the head of text_to_image / image_to_image: the exception it
\* raises, or NoException
Validate(kind, images, prompt) ==
    IF kind = "i2i" /\ NoImages(images) THEN ValueError("Please upload at least one image")
    ELSE IF PromptIsBlank(prompt) THEN ValueError("Please enter a prompt")
    ELSE IF pipe = "None" THEN HTTPException(503, NotLoadedMessage)
    ELSE NoException

\* variant of InnerExcept: a ValueError of the validation leaves as a 400
InnerExceptBadRequest(e) ==
    HTTPException(IF e.type = "ValueError" THEN 400 ELSE 500,
                  "Error generating image: " \o Str(e))

\* `except Exception as e` of text_to_image / image_to_image: HTTPException is an
\* Exception, so whatever was raised in the body leaves as a 500
InnerExcept(e) == HTTPException(500, "Error generating image: " \o Str(e))

\* `except HTTPException: raise` / `except Exception as e` of the two endpoints
OuterExcept(e) == IF e.type = "HTTPException" THEN e ELSE HTTPException(500, Str(e))

(***************************************************************************)
(* Responses.                                                              *)
(***************************************************************************)
NoResponse == [status_code |-> 0, detail |-> "", image |-> <<>>, status |-> ""]

\* FastAPI's rendering of a raised HTTPException: {"detail": ...} with its status
ErrorResponse(e) ==
    [status_code |-> e.status_code, detail |-> e.detail, image |-> <<>>, status |-> ""]

\* FastAPI's own answer to a body that lacks a required field
UnprocessableResponse ==
    [status_code |-> 422, detail |-> "Field required", image |-> <<>>, status |-> ""]

\* JSONResponse(content={"image": image_base64, "status": "success"})
SuccessResponse(b64) ==
    [status_code |-> 200, detail |-> "", image |-> b64, status |-> "success"]

(***************************************************************************)
(* image_to_base64: PNG serialisation, base64, data-URI prefix.            *)
(***************************************************************************)
B64Alphabet ==
    <<"A","B","C","D","E","F","G","H","I","J","K","L","M","N","O","P",
      "Q","R","S","T","U","V","W","X","Y","Z","a","b","c","d","e","f",
      "g","h","i","j","k","l","m","n","o","p","q","r","s","t","u","v",
      "w","x","y","z","0","1","2","3","4","5","6","7","8","9","+","/">>

B64Char(n) == B64Alphabet[(n % 64) + 1]

\* base64.b64encode(...).decode(): three bytes give four characters, "=" pads
RECURSIVE b64encode(_)
b64encode(bs) ==
    IF Len(bs) = 0 THEN <<>>
    ELSE IF Len(bs) = 1 THEN
        LET n == bs[1] * 65536
        IN <<B64Char(n \div 262144), B64Char(n \div 4096), "=", "=">>
    ELSE IF Len(bs) = 2 THEN
        LET n == bs[1] * 65536 + bs[2] * 256
        IN <<B64Char(n \div 262144), B64Char(n \div 4096), B64Char(n \div 64), "=">>
    ELSE
        LET n == bs[1] * 65536 + bs[2] * 256 + bs[3]
        IN <<B64Char(n \div 262144), B64Char(n \div 4096), B64Char(n \div 64), B64Char(n)>>
           \o b64encode(SubSeq(bs, 4, Len(bs)))

\* image.save(buffered, format="PNG"): the PNG signature, then the samples
\* (chunk framing and compression are not modelled)
PngSignature == <<137, 80, 78, 71>>
PngBytes(img) == PngSignature \o img.px

DataUriPrefix ==
    <<"d","a","t","a",":","i","m","a","g","e","/","p","n","g",";","b","a","s","e","6","4",",">>

\* variant of image_to_base64: `return img_str`, without the data-URI prefix
image_to_base64_bare(img) == b64encode(PngBytes(img))

\* image_to_base64(image)
image_to_base64(img) == DataUriPrefix \o b64encode(PngBytes(img))

(***************************************************************************)
(* The pipeline call.  The model is a black box; it is taken to be a fixed *)
(* function of its keyword arguments and of the random stream it draws     *)
(* from: the generator's seed when a generator is passed, the device's     *)
(* default stream otherwise.                                               *)
(***************************************************************************)
NoImage == [mode |-> "", px |-> <<>>]

NoCall == [prompt |-> <<>>, image |-> None, height |-> 0, width |-> 0,
           num_inference_steps |-> 0, guidance_scale |-> 0, generator |-> None]

RECURSIVE SumBytes(_)
SumBytes(s) == IF s = <<>> THEN 0 ELSE Head(s) + SumBytes(Tail(s))

RECURSIVE PromptCode(_)
PromptCode(p) ==
    IF p = <<>> THEN 0 ELSE (IF Head(p) = "a" THEN 97 ELSE 32) + 3 * PromptCode(Tail(p))

RECURSIVE ImagesCode(_)
ImagesCode(imgs) ==
    IF imgs = <<>> THEN 0 ELSE SumBytes(Head(imgs).px) + 5 * ImagesCode(Tail(imgs))

\* result.images[0] of pipe(**args) when the default stream is in state `stream`
PipeImage(args, stream) ==
    [mode |-> "RGB",
     px   |-> << (args.height + 3 * args.width + 7 * args.num_inference_steps
                  + 11 * args.guidance_scale) % 256,
                 (PromptCode(args.prompt)
                  + (IF args.image = None THEN 0 ELSE 1 + ImagesCode(args.image[1]))) % 256,
                 (IF args.generator = None THEN 128 + stream ELSE args.generator[1]) % 256 >>]

\* a call without a generator consumes the default stream
AdvanceStream(args, stream) == IF args.generator = None THEN stream + 1 ELSE stream

(***************************************************************************)
(* Request bodies the clients send.                                        *)
(***************************************************************************)
SeqsUpTo(S, n) == UNION {[1..k -> S] : k \in 0..n}

Chars == {" ", "a"}
Files == {PngRGB, PngL, Junk}

Body(kind, prompt, files, height, width, steps, guidance, seed) ==
    [kind |-> kind, prompt |-> prompt, files |-> files, height |-> height,
     width |-> width, num_inference_steps |-> steps, guidance_scale |-> guidance,
     seed |-> seed]

PromptInputs == {None} \cup {Some(p) : p \in SeqsUpTo(Chars, MaxPromptLen)}
FilesInputs == {None} \cup {Some(fs) : fs \in SeqsUpTo(Files, MaxFiles)}
HeightInputs == {None, Some(0), Some(512)}
WidthInputs == {None, Some(-32)}
StepsInputs == {None, Some(20)}
GuidanceInputs == {None, Some(75)}
SeedInputs == {None, Some(-2), Some(-1), Some(0)}

\* every combination of the fields, for one request at a time
ParamBodies ==
    {Body("t2i", p, None, h, w, st, g, sd) :
        p \in PromptInputs, h \in HeightInputs, w \in WidthInputs, st \in StepsInputs,
        g \in GuidanceInputs, sd \in SeedInputs}
    \cup
    {Body("i2i", p, fs, h, w, st, g, sd) :
        p \in PromptInputs, fs \in FilesInputs, h \in HeightInputs, w \in WidthInputs,
        st \in StepsInputs, g \in GuidanceInputs, sd \in SeedInputs}

\* a few well-formed bodies, for requests that run concurrently
ConcBodies ==
    {Body("t2i", Some(<<"a">>), None, None, None, None, None, sd) :
        sd \in {Some(-1), Some(0)}}
    \cup
    {Body("i2i", Some(<<"a">>), Some(fs), None, None, None, None, sd) :
        fs \in {<<PngRGB, PngL>>, <<PngL, Junk>>}, sd \in {Some(-1), Some(0)}}

NoBody == Body("t2i", None, None, None, None, None, None, None)

NoParams == [prompt |-> <<>>, height |-> 0, width |-> 0, num_inference_steps |-> 0,
             guidance_scale |-> 0, seed |-> 0]

(***************************************************************************)
(* Initial states.                                                         *)
(***************************************************************************)
InitCommon ==
    /\ pipe = "None"
    /\ rng = 0
    /\ running = {}
    /\ params = [r \in Req |-> NoParams]
    /\ idx = [r \in Req |-> 0]
    /\ pil_images = [r \in Req |-> <<>>]
    /\ generator = [r \in Req |-> None]
    /\ callArgs = [r \in Req |-> NoCall]
    /\ calls = [r \in Req |-> 0]
    /\ image = [r \in Req |-> NoImage]
    /\ image_base64 = [r \in Req |-> <<>>]
    /\ response = [r \in Req |-> NoResponse]
    /\ printed = [r \in 0..NumRequests |-> <<>>]

\* NumRequests clients, each about to send one of the well-formed bodies
Init ==
    /\ InitCommon
    /\ body \in [Req -> ConcBodies]
    /\ pc = [r \in Req |-> "idle"]

\* one client, about to send any body
InitParams ==
    /\ InitCommon
    /\ body \in {[r \in Req |-> IF r = 1 THEN b ELSE NoBody] : b \in ParamBodies}
    /\ pc = [r \in Req |-> IF r = 1 THEN "idle" ELSE "absent"]

(***************************************************************************)
(* The event loop: uvicorn runs every `async def` handler on one loop, so  *)
(* a handler runs alone from one `await` to the next.                      *)
(***************************************************************************)
\* variant of LoopFree: handlers declared `def` run in the thread pool, side by side
LoopFreeThreaded == TRUE

\* no handler is between two of its `await`s
LoopFree == running = {}

\* what a printed line shows: its text, the prompt and the number of input images it
\* interpolates, and the dimensions (no print of the program interpolates height/width)
Line(text, prompt, n) == [text |-> text, prompt |-> prompt, images |-> n, dims |-> None]

\* variant of WriteLine: the print is missing
WriteNothing(r, line) == UNCHANGED printed

\* print(...)
WriteLine(r, line) == printed' = [printed EXCEPT ![r] = Append(@, line)]

\* variant of Fail: the error response is sent but the loop is not handed back
FailHoldsLoop(r, e) ==
    /\ response' = [response EXCEPT ![r] = ErrorResponse(OuterExcept(e))]
    /\ pc' = [pc EXCEPT ![r] = "responded"]
    /\ UNCHANGED running

\* the exception e leaves the endpoint: the response is sent and the loop is released
Fail(r, e) ==
    /\ response' = [response EXCEPT ![r] = ErrorResponse(OuterExcept(e))]
    /\ pc' = [pc EXCEPT ![r] = "responded"]
    /\ running' = running \ {r}

(***************************************************************************)
(* Actions.                                                                *)
(***************************************************************************)
\* load_model(), called by lifespan at start-up
LoadModel ==
    /\ pipe = "None"
    /\ LoopFree
    /\ pipe' = "loaded"
    /\ printed' = [printed EXCEPT ![0] =
           @ \o <<Line("Loading GLM-Image model...", <<>>, 0),
                  Line("Model loaded successfully!", <<>>, 0)>>]
    /\ UNCHANGED <<rng, running, body, pc, params, idx, pil_images, generator,
                   callArgs, calls, image, image_base64, response>>

\* a client sends its request; the connection is accepted whatever the loop is doing
Send(r) ==
    /\ pc[r] = "idle"
    /\ pc' = [pc EXCEPT ![r] = "sent"]
    /\ UNCHANGED <<pipe, rng, running, body, params, idx, pil_images, generator,
                   callArgs, calls, image, image_base64, response, printed>>

\* POST /api/text-to-image: the body is parsed into TextToImageRequest and
\* api_text_to_image is entered
BeginTextToImage(r) ==
    /\ pc[r] = "sent"
    /\ body[r].kind = "t2i"
    /\ LoopFree
    /\ IF FrameworkRejects(body[r])
       THEN /\ response' = [response EXCEPT ![r] = UnprocessableResponse]
            /\ pc' = [pc EXCEPT ![r] = "responded"]
            /\ UNCHANGED <<running, params>>
       ELSE /\ params' = [params EXCEPT ![r] = TextToImageRequest(body[r])]
            /\ pc' = [pc EXCEPT ![r] = "entered"]
            /\ running' = running \cup {r}
            /\ UNCHANGED response
    /\ UNCHANGED <<pipe, rng, body, idx, pil_images, generator, callArgs, calls,
                   image, image_base64, printed>>

\* POST /api/image-to-image: the form is parsed, api_image_to_image is entered and
\* runs to its first `await file.read()` (or, with no file, into image_to_image)
BeginImageToImage(r) ==
    /\ pc[r] = "sent"
    /\ body[r].kind = "i2i"
    /\ LoopFree
    /\ IF FrameworkRejects(body[r])
       THEN /\ response' = [response EXCEPT ![r] = UnprocessableResponse]
            /\ pc' = [pc EXCEPT ![r] = "responded"]
            /\ UNCHANGED <<running, params, idx, pil_images>>
       ELSE /\ params' = [params EXCEPT ![r] = ImageToImageForm(body[r])]
            /\ pil_images' = [pil_images EXCEPT ![r] = <<>>]
            /\ IF Len(body[r].files[1]) = 0
               THEN /\ pc' = [pc EXCEPT ![r] = "entered"]
                    /\ running' = running \cup {r}
                    /\ UNCHANGED idx
               ELSE /\ pc' = [pc EXCEPT ![r] = "reading"]
                    /\ idx' = [idx EXCEPT ![r] = 1]
                    /\ UNCHANGED running
            /\ UNCHANGED response
    /\ UNCHANGED <<pipe, rng, body, generator, callArgs, calls, image, image_base64,
                   printed>>

\* api_image_to_image resumes after `await file.read()`: the file is decoded and
\* appended; then the next file is awaited or image_to_image is entered
ReadFile(r) ==
    /\ pc[r] = "reading"
    /\ LoopFree
    /\ LET files == body[r].files[1]
           step == DecodeStep(pil_images[r], files[idx[r]])
       IN IF step.raised
          THEN /\ Fail(r, UnidentifiedImageError)
               /\ UNCHANGED <<idx, pil_images>>
          ELSE /\ pil_images' = [pil_images EXCEPT ![r] = step.images]
               /\ IF idx[r] < Len(files)
                  THEN /\ idx' = [idx EXCEPT ![r] = @ + 1]
                       /\ UNCHANGED <<pc, running>>
                  ELSE /\ pc' = [pc EXCEPT ![r] = "entered"]
                       /\ running' = running \cup {r}
                       /\ UNCHANGED idx
               /\ UNCHANGED response
    /\ UNCHANGED <<pipe, rng, body, params, generator, callArgs, calls, image,
                   image_base64, printed>>

\* text_to_image / image_to_image up to the generator: the inputs are validated,
\* `pipe` is tested and the generator is set up
Resolve(r) ==
    /\ pc[r] = "entered"
    /\ r \in running
    /\ LET e == Validate(body[r].kind, pil_images[r], params[r].prompt)
       IN IF e # NoException
          THEN /\ WriteLine(r, Line(InnerExcept(e).detail, <<>>, 0))
               /\ Fail(r, InnerExcept(e))
               /\ UNCHANGED generator
          ELSE /\ generator' = [generator EXCEPT ![r] = MakeGenerator(params[r].seed)]
               /\ pc' = [pc EXCEPT ![r] = "resolved"]
               /\ UNCHANGED <<running, response, printed>>
    /\ UNCHANGED <<pipe, rng, body, params, idx, pil_images, callArgs, calls, image,
                   image_base64>>

\* variant of Invoke: the call is made before the inputs are validated
InvokeBeforeValidation(r) ==
    /\ pc[r] = "entered"
    /\ r \in running
    /\ calls[r] = 0
    /\ callArgs' = [callArgs EXCEPT ![r] =
           [prompt              |-> params[r].prompt,
            image               |-> IF body[r].kind = "i2i" THEN Some(pil_images[r]) ELSE None,
            height              |-> params[r].height,
            width               |-> params[r].width,
            num_inference_steps |-> params[r].num_inference_steps,
            guidance_scale      |-> params[r].guidance_scale,
            generator           |-> MakeGenerator(params[r].seed)]]
    /\ calls' = [calls EXCEPT ![r] = @ + 1]
    /\ pc' = [pc EXCEPT ![r] = "invoked"]
    /\ UNCHANGED <<pipe, rng, running, body, params, idx, pil_images, generator,
                   image, image_base64, response, printed>>

\* the call pipe(...) is made
Invoke(r) ==
    /\ pc[r] = "resolved"
    /\ r \in running
    /\ WriteLine(r, Line("Generating image with prompt: ", params[r].prompt,
                     Len(pil_images[r])))
    /\ callArgs' = [callArgs EXCEPT ![r] =
           [prompt              |-> params[r].prompt,
            image               |-> IF body[r].kind = "i2i" THEN Some(pil_images[r]) ELSE None,
            height              |-> params[r].height,
            width               |-> params[r].width,
            num_inference_steps |-> params[r].num_inference_steps,
            guidance_scale      |-> params[r].guidance_scale,
            generator           |-> generator[r]]]
    /\ calls' = [calls EXCEPT ![r] = @ + 1]
    /\ pc' = [pc EXCEPT ![r] = "invoked"]
    /\ UNCHANGED <<pipe, rng, running, body, params, idx, pil_images, generator,
                   image, image_base64, response>>

\* pipe(...) returns; image = result.images[0]
PipeReturn(r) ==
    /\ pc[r] = "invoked"
    /\ r \in running
    /\ image' = [image EXCEPT ![r] = PipeImage(callArgs[r], rng)]
    /\ rng' = AdvanceStream(callArgs[r], rng)
    /\ pc' = [pc EXCEPT ![r] = "returned"]
    /\ UNCHANGED <<pipe, running, body, params, idx, pil_images, generator, callArgs,
                   calls, image_base64, response, printed>>

\* variant of PipeRaise: the call is made again after a failure
PipeRaiseRetry(r) ==
    /\ pc[r] = "invoked"
    /\ r \in running
    /\ calls[r] < 2
    /\ pc' = [pc EXCEPT ![r] = "resolved"]
    /\ UNCHANGED <<pipe, rng, running, body, params, idx, pil_images, generator,
                   callArgs, calls, image, image_base64, response, printed>>

\* pipe(...) raises: the `except` of text_to_image / image_to_image prints the
\* message and raises HTTPException(500); nothing is called again
PipeRaise(r) ==
    /\ pc[r] = "invoked"
    /\ r \in running
    /\ rng' \in {rng, AdvanceStream(callArgs[r], rng)}
    /\ WriteLine(r, Line(InnerExcept(ModelError).detail, <<>>, 0))
    /\ Fail(r, InnerExcept(ModelError))
    /\ UNCHANGED <<pipe, body, params, idx, pil_images, generator, callArgs, calls,
                   image, image_base64>>

\* image_base64 = image_to_base64(image)
Encode(r) ==
    /\ pc[r] = "returned"
    /\ r \in running
    /\ image_base64' = [image_base64 EXCEPT ![r] = image_to_base64(image[r])]
    /\ pc' = [pc EXCEPT ![r] = "encoded"]
    /\ UNCHANGED <<pipe, rng, running, body, params, idx, pil_images, generator,
                   callArgs, calls, image, response, printed>>

\* image.save(...) raises: only the endpoint's `except Exception` sees it
EncodeRaise(r) ==
    /\ pc[r] = "returned"
    /\ r \in running
    /\ Fail(r, EncoderError)
    /\ UNCHANGED <<pipe, rng, body, params, idx, pil_images, generator, callArgs,
                   calls, image, image_base64, printed>>

\* return JSONResponse(content={"image": image_base64, "status": "success"})
Respond(r) ==
    /\ pc[r] = "encoded"
    /\ r \in running
    /\ response' = [response EXCEPT ![r] = SuccessResponse(image_base64[r])]
    /\ pc' = [pc EXCEPT ![r] = "responded"]
    /\ running' = running \ {r}
    /\ UNCHANGED <<pipe, rng, body, params, idx, pil_images, generator, callArgs,
                   calls, image, image_base64, printed>>

Next ==
    \/ LoadModel
    \/ \E r \in Req : Send(r)
    \/ \E r \in Req : BeginTextToImage(r)
    \/ \E r \in Req : BeginImageToImage(r)
    \/ \E r \in Req : ReadFile(r)
    \/ \E r \in Req : Resolve(r)
    \/ \E r \in Req : Invoke(r)
    \/ \E r \in Req : PipeReturn(r)
    \/ \E r \in Req : PipeRaise(r)
    \/ \E r \in Req : Encode(r)
    \/ \E r \in Req : EncodeRaise(r)
    \/ \E r \in Req : Respond(r)

\* NumRequests concurrent requests with well-formed bodies
Spec == Init /\ [][Next]_vars

\* one request with any body
SpecParams == InitParams /\ [][Next]_vars

\* what the server does for request r once it was sent
Progress(r) ==
    \/ BeginTextToImage(r)
    \/ BeginImageToImage(r)
    \/ ReadFile(r)
    \/ Resolve(r)
    \/ Invoke(r)
    \/ PipeReturn(r)
    \/ PipeRaise(r)
    \/ Encode(r)
    \/ EncodeRaise(r)
    \/ Respond(r)

\* the loop runs every handler that is ready (its ready queue is first-in first-out),
\* synchronous code runs on, and every call pipe(...) returns or raises
Fairness == \A r \in Req : WF_vars(Progress(r))

\* NumRequests concurrent requests on a fair loop
SpecFair == Init /\ [][Next]_vars /\ Fairness

(***************************************************************************)
(* Vocabulary of the properties.                                           *)
(***************************************************************************)
Responded(r) == pc[r] = "responded"
Succeeded(r) == Responded(r) /\ response[r].status_code = 200
IsError(r) == Responded(r) /\ response[r].status_code >= 400
InModelCall(r) == pc[r] = "invoked"
Invoked(r) == calls[r] > 0

\* the prompt that was sent is empty or only whitespace
BlankPromptSent(r) ==
    /\ body[r].prompt # None
    /\ \A i \in 1..Len(body[r].prompt[1]) : body[r].prompt[1][i] \in {" ", "\t", "\n"}

\* the request passes every test that precedes `if pipe is None`
PassesInputChecks(r) ==
    /\ body[r].prompt # None
    /\ ~BlankPromptSent(r)
    /\ body[r].kind = "i2i" =>
          /\ body[r].files # None
          /\ body[r].files[1] # <<>>
          /\ \A k \in 1..Len(body[r].files[1]) : body[r].files[1][k].format = "PNG"

\* the seed the request asks for, the declared default when it sends none
SeedAsked(r) == IF body[r].seed = None THEN 42 ELSE body[r].seed[1]

(***************************************************************************)
(* C1.  A generation request handled while `pipe` is None is answered with *)
(* status 503 (model still loading), not with the 500 of a failure.        *)
(***************************************************************************)
C1_NotLoadedAnswers503 ==
    \A r \in Req :
        (Responded(r) /\ pipe = "None" /\ PassesInputChecks(r))
            => response[r].status_code = 503

(***************************************************************************)
(* C2.  At most one request is inside the call pipe(...) at any time: a    *)
(* request that arrives while another is inside the call does not start    *)
(* its own call before the first has returned or raised.                   *)
(***************************************************************************)
C2_OneModelCallInFlight == Cardinality({r \in Req : InModelCall(r)}) <= 1

C2_Witness ==
    \E r1, r2 \in Req :
        /\ r1 # r2
        /\ InModelCall(r1)
        /\ pc[r2] \in {"sent", "reading"}
        /\ body[r1].kind # body[r2].kind

(***************************************************************************)
(* C3.  In both variants a request whose prompt is empty or only           *)
(* whitespace ends in an error response, and pipe(...) is never called for *)
(* it.                                                                     *)
(***************************************************************************)
C3_BlankPromptRejected ==
    \A r \in Req :
        BlankPromptSent(r) =>
            /\ calls[r] = 0
            /\ pc[r] \notin {"resolved", "invoked", "returned", "encoded"}
            /\ Responded(r) => IsError(r)

C3_Witness ==
    \E r \in Req :
        /\ Responded(r)
        /\ body[r].prompt = Some(<<" ">>)
        /\ body[r].kind = "i2i"
        /\ body[r].files = Some(<<PngL>>)
        /\ pipe = "loaded"
        /\ response[r].status_code = 500
        /\ response[r].detail = "Error generating image: Please enter a prompt"
        /\ calls[r] = 0

(***************************************************************************)
(* C4.  An image-to-image request with no uploaded file (an empty or a     *)
(* missing collection) ends in an error response, and pipe(...) is never   *)
(* called for it.                                                          *)
(***************************************************************************)
C4_NoFilesRejected ==
    \A r \in Req :
        (body[r].kind = "i2i" /\ pc[r] # "absent"
         /\ (body[r].files = None \/ body[r].files = Some(<<>>))) =>
            /\ calls[r] = 0
            /\ pc[r] \notin {"resolved", "invoked", "returned", "encoded"}
            /\ Responded(r) => IsError(r)

C4_Witness ==
    \E r \in Req :
        /\ Responded(r)
        /\ body[r].kind = "i2i"
        /\ body[r].files = Some(<<>>)
        /\ body[r].prompt = Some(<<"a">>)
        /\ pipe = "loaded"
        /\ response[r].detail = "Error generating image: Please upload at least one image"
        /\ calls[r] = 0

(***************************************************************************)
(* C5.  Every call pipe(...) gets a generator seeded with exactly the      *)
(* request's seed when the seed is >= 0 (0 included), and generator=None   *)
(* when the seed is negative (any negative value, not only -1).            *)
(***************************************************************************)
C5_GeneratorFollowsSeed ==
    \A r \in Req :
        Invoked(r) =>
            IF SeedAsked(r) >= 0
            THEN callArgs[r].generator = Some(SeedAsked(r))
            ELSE callArgs[r].generator = None

C5_Witness ==
    \E r \in Req :
        /\ Invoked(r)
        /\ body[r].seed = Some(-2)
        /\ callArgs[r].generator = None

C7_DefaultsOnlyWhenOmitted ==
    \A r \in Req :
        Invoked(r) =>
            LET a == callArgs[r]
                b == body[r]
                t2i == b.kind = "t2i"
            IN /\ a.height = IF b.height = None THEN (IF t2i THEN 1024 ELSE 1056)
                             ELSE b.height[1]
               /\ a.width = IF b.width = None THEN (IF t2i THEN 1152 ELSE 1024)
                            ELSE b.width[1]
               /\ a.num_inference_steps =
                      IF b.num_inference_steps = None THEN 50 ELSE b.num_inference_steps[1]
               /\ a.guidance_scale =
                      IF b.guidance_scale = None THEN 15 ELSE b.guidance_scale[1]
               /\ params[r].seed = IF b.seed = None THEN 42 ELSE b.seed[1]
               /\ b.seed = None => a.generator = Some(42)

C7_Witness ==
    \E r \in Req :
        /\ Invoked(r)
        /\ body[r].kind = "i2i"
        /\ body[r].height = None /\ body[r].width = None
        /\ body[r].num_inference_steps = None /\ body[r].guidance_scale = None
        /\ body[r].seed = None
        /\ callArgs[r].height = 1056 /\ callArgs[r].width = 1024

(***************************************************************************)
(* C8.  For an image-to-image request with N uploaded files that reaches   *)
(* pipe(...), the `image` argument has exactly N elements and its k-th     *)
(* element is the decoded k-th uploaded file.                              *)
(***************************************************************************)
C8_UploadOrderPreserved ==
    \A r \in Req :
        (Invoked(r) /\ body[r].kind = "i2i") =>
            /\ callArgs[r].image # None
            /\ Len(callArgs[r].image[1]) = Len(body[r].files[1])
            /\ \A k \in 1..Len(body[r].files[1]) :
                   callArgs[r].image[1][k] = DecodeRGB(body[r].files[1][k])

C8_Witness ==
    \E r \in Req :
        /\ Invoked(r)
        /\ body[r].files = Some(<<PngL, PngRGB>>)
        /\ callArgs[r].image = Some(<<DecodeRGB(PngL), DecodeRGB(PngRGB)>>)

(***************************************************************************)
(* C9.  If any uploaded file of an image-to-image request, at any          *)
(* position, is not a decodable image, the request ends in a 500 response  *)
(* and pipe(...) is never called with the files that did decode.           *)
(***************************************************************************)
C9_DecodeFailureAbortsRequest ==
    \A r \in Req :
        (/\ body[r].kind = "i2i"
         /\ body[r].prompt # None
         /\ body[r].files # None
         /\ \E k \in 1..Len(body[r].files[1]) : body[r].files[1][k].format # "PNG") =>
            /\ calls[r] = 0
            /\ pc[r] \notin {"entered", "resolved", "invoked", "returned", "encoded"}
            /\ Responded(r) => response[r].status_code = 500

C9_Witness ==
    \E r \in Req :
        /\ Responded(r)
        /\ body[r].files = Some(<<PngRGB, Junk>>)
        /\ body[r].prompt = Some(<<"a">>)
        /\ pil_images[r] = <<DecodeRGB(PngRGB)>>
        /\ response[r].status_code = 500
        /\ calls[r] = 0

(***************************************************************************)
(* C10.  Every request calls pipe(...) at most once, a request answered    *)
(* with success called it exactly once, and a call that raised is not      *)
(* repeated within the request.                                            *)
(***************************************************************************)
C10_ModelCalledAtMostOnce ==
    \A r \in Req :
        /\ calls[r] <= 1
        /\ Succeeded(r) => calls[r] = 1

C10_Witness ==
    \E r \in Req :
        /\ Responded(r)
        /\ response[r].detail = "Error generating image: CUDA out of memory"
        /\ calls[r] = 1

\* the request got past the framework's parsing, into the endpoint function
HandlerEntered(r) == pc[r] \notin {"absent", "idle", "sent"} /\ ~FrameworkRejects(body[r])

\* text_to_image / image_to_image rejected the request's inputs
ValidationFailed(r) ==
    /\ HandlerEntered(r)
    /\ Responded(r)
    /\ BlankPromptSent(r) \/ (body[r].kind = "i2i" /\ body[r].files = Some(<<>>))

\* the request's call pipe(...) raised
ModelRaised(r) == Responded(r) /\ calls[r] > 0 /\ image[r] = NoImage

\* image_to_base64 raised
EncoderRaised(r) == Responded(r) /\ image[r] # NoImage /\ image_base64[r] = <<>>

\* an uploaded file could not be decoded
DecoderRaised(r) ==
    /\ HandlerEntered(r)
    /\ Responded(r)
    /\ body[r].kind = "i2i"
    /\ \E k \in 1..Len(body[r].files[1]) : body[r].files[1][k].format # "PNG"

(***************************************************************************)
(* C11.  Every failure inside a handler becomes the error envelope with a  *)
(* numeric status and a message: a validation failure (empty prompt, empty *)
(* image set) and an exception of the model call give status 500 with a    *)
(* detail message, and an exception of the model, the decoder or the       *)
(* encoder leaves the handler only as an HTTP error with status 500 or 503.*)
(***************************************************************************)
C11_FailuresBecomeErrorEnvelope ==
    \A r \in Req :
        (Responded(r) /\ HandlerEntered(r)) =>
            /\ response[r].status_code \in {200, 500, 503}
            /\ response[r].status_code # 200 =>
                   response[r].image = <<>> /\ response[r].status = ""
            /\ (ValidationFailed(r) \/ ModelRaised(r)) =>
                   response[r].status_code = 500 /\ response[r].detail # ""
            /\ (DecoderRaised(r) \/ EncoderRaised(r)) =>
                   response[r].status_code \in {500, 503}

C11_Witness ==
    \E r \in Req :
        /\ EncoderRaised(r)
        /\ body[r].kind = "i2i"
        /\ response[r].status_code = 500
        /\ response[r].detail = "cannot write PNG"

\* a numeric field the request supplies is zero or negative
NonPositiveSent(r) ==
    \E f \in {"height", "width", "num_inference_steps", "guidance_scale"} :
        body[r][f] # None /\ body[r][f][1] <= 0

(***************************************************************************)
(* C12.  A request whose height, width, num_inference_steps or             *)
(* guidance_scale is zero or negative fails with a validation error and    *)
(* pipe(...) is never called with a non-positive value for any of these    *)
(* fields; every positive value reaches pipe(...) unchanged.               *)
(***************************************************************************)
C12_NonPositiveRejected ==
    \A r \in Req :
        /\ Invoked(r) =>
               /\ callArgs[r].height > 0
               /\ callArgs[r].width > 0
               /\ callArgs[r].num_inference_steps > 0
               /\ callArgs[r].guidance_scale > 0
        /\ (NonPositiveSent(r) /\ Responded(r)) => (IsError(r) /\ calls[r] = 0)
        /\ (Invoked(r) /\ body[r].height # None /\ body[r].height[1] > 0) =>
               callArgs[r].height = body[r].height[1]

\* the stage of the request's life a position belongs to:
\* 1 received, 2 resolved, 3 invoked, 4 encoded, 5 responded (0: nothing sent yet)
Stage(p) ==
    CASE p \in {"sent", "reading", "entered"} -> 1
      [] p = "resolved" -> 2
      [] p \in {"invoked", "returned"} -> 3
      [] p = "encoded" -> 4
      [] p = "responded" -> 5
      [] OTHER -> 0

(***************************************************************************)
(* C13.  Each request moves through received, resolved (validated),        *)
(* invoked (model called), encoded, responded in that order, one stage at  *)
(* a time, or leaves the sequence for an error response from any stage: a  *)
(* success response is sent only after the model returned an image and the *)
(* image was encoded, the model is invoked only after validation passed,   *)
(* and no stage is entered after a response.                               *)
(***************************************************************************)
C13_StagesInOrder ==
    [][\A r \in Req :
          /\ \/ Stage(pc'[r]) = Stage(pc[r])
             \/ Stage(pc'[r]) = Stage(pc[r]) + 1
             \/ pc'[r] = "responded" /\ pc[r] # "idle" /\ response'[r].status_code >= 400
          /\ (pc'[r] = "responded" /\ pc[r] # "responded"
              /\ response'[r].status_code = 200) =>
                 /\ pc[r] = "encoded"
                 /\ image[r] # NoImage
                 /\ image_base64[r] = image_to_base64(image[r])
                 /\ response'[r].image = image_base64[r]
          /\ (pc'[r] = "invoked" /\ pc[r] # "invoked") =>
                 /\ pc[r] = "resolved"
                 /\ Validate(body[r].kind, pil_images[r], params[r].prompt) = NoException
          /\ pc[r] = "responded" =>
                 /\ pc'[r] = "responded"
                 /\ response'[r] = response[r]
                 /\ calls'[r] = calls[r]
                 /\ image'[r] = image[r]
                 /\ image_base64'[r] = image_base64[r]
      ]_vars

C13_Witness ==
    \E r1, r2 \in Req :
        /\ Succeeded(r1)
        /\ body[r1].kind = "t2i"
        /\ response[r1].image = image_to_base64(image[r1])
        /\ IsError(r2)
        /\ body[r2].kind = "i2i"
        /\ calls[r2] = 0

\* the value of a base64 character
B64Value(c) == CHOOSE n \in 0..63 : B64Alphabet[n + 1] = c

\* the bytes a padded base64 text stands for
RECURSIVE b64decode(_)
b64decode(cs) ==
    IF Len(cs) < 4 THEN <<>>
    ELSE LET a == B64Value(cs[1])
             b == B64Value(cs[2])
         IN IF cs[3] = "=" THEN <<a * 4 + b \div 16>>
            ELSE IF cs[4] = "=" THEN
                <<a * 4 + b \div 16, (b % 16) * 16 + B64Value(cs[3]) \div 4>>
            ELSE
                <<a * 4 + b \div 16,
                  (b % 16) * 16 + B64Value(cs[3]) \div 4,
                  (B64Value(cs[3]) % 4) * 64 + B64Value(cs[4])>>
                \o b64decode(SubSeq(cs, 5, Len(cs)))

(***************************************************************************)
(* C14.  Every success response is {image, status: "success"}; the image   *)
(* string begins with exactly data:image/png;base64, and the rest          *)
(* base64-decodes to the PNG bytes of the one image the model returned for *)
(* the request; encoding leaves the image as it was.                       *)
(***************************************************************************)
C14_SuccessEnvelopeDecodesToImage ==
    \A r \in Req :
        /\ Succeeded(r) =>
               LET s == response[r].image
               IN /\ response[r].status = "success"
                  /\ response[r].detail = ""
                  /\ Len(s) > 22
                  /\ SubSeq(s, 1, 22) =
                         <<"d","a","t","a",":","i","m","a","g","e","/","p","n","g",";",
                           "b","a","s","e","6","4",",">>
                  /\ b64decode(SubSeq(s, 23, Len(s))) = <<137, 80, 78, 71>> \o image[r].px
                  /\ image[r] # NoImage
                  /\ callArgs[r].generator # None => image[r] = PipeImage(callArgs[r], 0)
        /\ image_base64[r] # <<>> =>
               b64decode(SubSeq(image_base64[r], 23, Len(image_base64[r])))
                   = PngBytes(image[r])

C14_Witness ==
    \E r \in Req :
        /\ Succeeded(r)
        /\ body[r].kind = "i2i"
        /\ body[r].seed = Some(-2)
        /\ Len(response[r].image) = 34
        /\ response[r].image[34] = "="
        /\ response[r].image[23] = "i"

\* the request ended in an error response sent from inside its handler
HandlerFailed(r) == Responded(r) /\ HandlerEntered(r) /\ response[r].status_code # 200

(***************************************************************************)
(* C15 as stated.  Every failure path of both endpoints (validation        *)
(* failure, model not ready, model call failure, upload decode failure,    *)
(* encoding failure) writes a log entry that carries the request's prompt, *)
(* its dimensions and the error message.                                   *)
(***************************************************************************)
C15_FailuresLoggedWithContext ==
    \A r \in Req :
        HandlerFailed(r) =>
            \E i \in 1..Len(printed[r]) :
                /\ printed[r][i].text = response[r].detail
                /\ printed[r][i].prompt = params[r].prompt
                /\ printed[r][i].dims = Some(<<params[r].height, params[r].width>>)

(***************************************************************************)
(* C15 as amended.  A failure raised inside text_to_image / image_to_image *)
(* (validation failure, model not ready, model call failure) prints one    *)
(* line, "Error generating image: <message>", the text of the response's   *)
(* detail, with neither the prompt nor the dimensions in it; an upload     *)
(* decode failure and an encoding failure print no error line at all.      *)
(***************************************************************************)
C15_OnlyInnerFailuresLogMessage ==
    \A r \in Req :
        HandlerFailed(r) =>
            IF DecoderRaised(r) \/ EncoderRaised(r)
            THEN \A i \in 1..Len(printed[r]) :
                     printed[r][i].text = "Generating image with prompt: "
            ELSE /\ printed[r] # <<>>
                 /\ printed[r][Len(printed[r])] =
                        [text |-> response[r].detail, prompt |-> <<>>, images |-> 0,
                         dims |-> None]
                 /\ \A i \in 1..(Len(printed[r]) - 1) :
                        printed[r][i].text = "Generating image with prompt: "

C15_Witness ==
    \E r \in Req :
        /\ HandlerFailed(r)
        /\ pipe = "None"
        /\ body[r].kind = "i2i"
        /\ response[r].detail =
               "Error generating image: 503: Model is not loaded yet. Please wait for the model to finish loading."
        /\ Len(printed[r]) = 1
        /\ printed[r][1].text = response[r].detail

(***************************************************************************)
(* C16.  With every model call returning or raising and a fair loop, every *)
(* request that was sent eventually gets exactly one response, also when   *)
(* it arrived while another request's model call was in flight: once sent  *)
(* it is answered, the answer is written once and never changes, and a     *)
(* model call that was started ends only by returning or raising.          *)
(***************************************************************************)
C16_EveryRequestAnsweredOnce ==
    /\ \A r \in Req : (pc[r] = "sent") ~> (Responded(r) /\ response[r] # NoResponse)
    /\ [][\A r \in Req :
             /\ response'[r] # response[r] =>
                    (pc[r] # "responded" /\ pc'[r] = "responded" /\ response[r] = NoResponse)
             /\ pc[r] = "responded" => pc'[r] = "responded"
             /\ (pc[r] = "invoked" /\ pc'[r] # "invoked") =>
                    \/ pc'[r] = "returned" /\ image'[r] # NoImage
                    \/ pc'[r] = "responded" /\ response'[r].status_code = 500
         ]_vars

C16_Witness ==
    \E r1, r2 \in Req :
        /\ r1 # r2
        /\ InModelCall(r1)
        /\ pc[r2] = "sent"
        /\ body[r1].kind = "t2i"
        /\ body[r2].kind = "t2i"

====
